---- MODULE Spec2Model ----
(***************************************************************************)
(* Model of serle/async_streams: the four stock signals (MaxPrice,         *)
(* MinPrice, WindowedSMA, PriceDifference), fetch_closing_data,            *)
(* calculate_signals and the stream_signals orchestrator writing data.csv  *)
(* through a BufWriter.                                                    *)
(*                                                                         *)
(* Numbers.  An f64 is modelled as a pair <<n, d>>: the exact rational n/d *)
(* in lowest terms when d > 0, and <<1,0>>, <<-1,0>>, <<0,0>> for +inf,    *)
(* -inf and NaN, which is what IEEE-754 division by zero produces.         *)
(* Rounding of the f64 mantissa and overflow past f64::MAX are not         *)
(* modelled: arithmetic on finite values is exact.                         *)
(***************************************************************************)
EXTENDS Integers, Sequences, FiniteSets, TLC

VARIABLES
    symbols,    \* stream_signals: the symbol list handed to the run
    start,      \* stream_signals: the period start, printed in every row
    file0,      \* history: the content of data.csv before the run
    fileExists, \* whether data.csv exists
    file,       \* data.csv: a sequence of lines
    filePos,    \* the cursor of the open file handle, in lines
    buf,        \* the BufWriter's buffer: lines written and not yet flushed
    pc,         \* the position of stream_signals
    idx,        \* the position of the for loop in symbols (1-based)
    err,        \* the io::ErrorKind the run returned, "" when none
    provided,   \* history: what the provider answered to each fetch
    tQuotes,    \* harness: a provider response handed to fetch_closing_data
    tSeries,    \* harness: the series handed to the signals
    tOut        \* harness: the last result computed

runVars == <<symbols, start, file0, fileExists, file, filePos, buf, pc, idx, err, provided>>

sigVars == <<tQuotes, tSeries, tOut>>

vars == <<symbols, start, file0, fileExists, file, filePos, buf, pc, idx, err, provided,
          tQuotes, tSeries, tOut>>

(***************************************************************************)
(* Bounds of the model.                                                    *)
(***************************************************************************)
MaxSymbols == 2

MaxLen == 5

MaxPriceValue == 2

MaxWindow == 6

MaxQuotes == 3

MaxTimestamp == 2

(***************************************************************************)
(* f64 arithmetic.                                                         *)
(***************************************************************************)
Abs(x) == IF x < 0 THEN -x ELSE x

Sign(x) == IF x < 0 THEN -1 ELSE IF x > 0 THEN 1 ELSE 0

RECURSIVE GCD(_, _)
GCD(a, b) == IF b = 0 THEN a ELSE GCD(b, a % b)

Norm(n, d) ==
    IF d = 0 THEN <<Sign(n), 0>>
    ELSE LET g == GCD(Abs(n), d) IN <<Sign(n) * (Abs(n) \div g), d \div g>>

F(n) == <<n, 1>>

IsNaN(a) == a = <<0, 0>>

FAdd(a, b) ==
    IF a[2] = 0 /\ b[2] = 0 THEN (IF a = b THEN a ELSE <<0, 0>>)
    ELSE Norm(a[1] * b[2] + b[1] * a[2], a[2] * b[2])

FNeg(a) == <<-a[1], a[2]>>

FSub(a, b) == FAdd(a, FNeg(b))

FMul(a, b) == Norm(a[1] * b[1], a[2] * b[2])

FDiv(a, b) ==
    IF a[2] = 0 /\ b[2] = 0 THEN <<0, 0>>
    ELSE IF b[1] < 0 THEN Norm(-(a[1] * b[2]), -(a[2] * b[1]))
    ELSE Norm(a[1] * b[2], a[2] * b[1])

FLe(a, b) ==
    IF IsNaN(a) \/ IsNaN(b) THEN FALSE
    ELSE IF a[2] = 0 THEN a[1] = -1 \/ a = b
    ELSE IF b[2] = 0 THEN b[1] = 1
    ELSE a[1] * b[2] <= b[1] * a[2]

FLt(a, b) == FLe(a, b) /\ a # b

\* f64::max and f64::min: a NaN operand is ignored.
FMax(a, b) == IF IsNaN(a) THEN b ELSE IF IsNaN(b) THEN a ELSE IF FLe(a, b) THEN b ELSE a

FMin(a, b) == IF IsNaN(a) THEN b ELSE IF IsNaN(b) THEN a ELSE IF FLe(a, b) THEN a ELSE b

\* f64::MAX and f64::MIN, the largest and the most negative finite values.
F64_MAX == <<1000000, 1>>

F64_MIN == FNeg(F64_MAX)

(***************************************************************************)
(* Option<T> and the outcome of a call.                                    *)
(***************************************************************************)
None == [tag |-> "None"]

Some(v) == [tag |-> "Some", val |-> v]

Panic == [tag |-> "Panic"]

Last(s) == s[Len(s)]

\* Iterator::fold over a slice, left to right.
RECURSIVE FoldMax(_, _)
FoldMax(acc, s) == IF s = <<>> THEN acc ELSE FoldMax(FMax(acc, Head(s)), Tail(s))

RECURSIVE FoldMin(_, _)
FoldMin(acc, s) == IF s = <<>> THEN acc ELSE FoldMin(FMin(acc, Head(s)), Tail(s))

\* Iterator::sum::<f64>, left to right from 0.0.
RECURSIVE FoldSum(_, _)
FoldSum(acc, s) == IF s = <<>> THEN acc ELSE FoldSum(FAdd(acc, Head(s)), Tail(s))

(***************************************************************************)
(* The signals.                                                            *)
(***************************************************************************)
MaxPrice_calculate_MinFold(series) ==
    IF series = <<>> THEN None ELSE Some(FoldMin(F64_MIN, series))

MaxPrice_calculate(series) ==
    IF series = <<>> THEN None ELSE Some(FoldMax(F64_MIN, series))

MinPrice_calculate_ZeroSeed(series) ==
    IF series = <<>> THEN None ELSE Some(FoldMin(F(0), series))

MinPrice_calculate(series) ==
    IF series = <<>> THEN None ELSE Some(FoldMin(F64_MAX, series))

\* slice::windows(size): every contiguous sub-slice of length size, in order;
\* none when the slice is shorter.
Windows(s, size) ==
    IF Len(s) < size THEN <<>>
    ELSE [i \in 1..(Len(s) - size + 1) |-> SubSeq(s, i, i + size - 1)]

WindowMean_Bessel(w) == FDiv(FoldSum(F(0), w), F(Len(w) - 1))

\* |w| w.iter().sum::<f64>() / w.len() as f64
WindowMean(w) == FDiv(FoldSum(F(0), w), F(Len(w)))

\* series.windows(self.0).map(..).collect(); slice::windows panics on size 0.
SMAOverWindows(window_size, series) ==
    IF window_size = 0 THEN Panic
    ELSE LET ws == Windows(series, window_size)
         IN  Some([i \in 1..Len(ws) |-> WindowMean(ws[i])])

WindowedSMA_calculate_NoSizeGuard(window_size, series) ==
    IF series # <<>> THEN SMAOverWindows(window_size, series) ELSE None

WindowedSMA_calculate(window_size, series) ==
    IF series # <<>> /\ window_size > 1
    THEN SMAOverWindows(window_size, series)
    ELSE None

\* price_diff.rs is not among the sources.  Spec section 4.4 gives the three
\* cases; test_price_difference_calculate (main.rs 253-263) pins a series
\* starting at 0.0 and ending at 1.0 to (1.0, 1.0): the divisor is 1.0 when the
\* first element is 0.0.
PriceDifference_calculate_NoGuard(series) ==
    IF series = <<>> THEN None
    ELSE LET abs_diff == FSub(Last(series), Head(series))
         IN  Some(<<abs_diff, FDiv(abs_diff, Head(series))>>)

PriceDifference_calculate(series) ==
    IF series = <<>> THEN None
    ELSE LET abs_diff == FSub(Last(series), Head(series))
             first == IF Head(series) = F(0) THEN F(1) ELSE Head(series)
         IN  Some(<<abs_diff, FDiv(abs_diff, first)>>)

(***************************************************************************)
(* fetch_closing_data.  A provider answer is one of                        *)
(*   [kind |-> "ConnectorErr"]   YahooConnector::new() failed              *)
(*   [kind |-> "HistoryErr"]     get_quote_history failed                  *)
(*   [kind |-> "QuotesErr"]      resp.quotes() failed                      *)
(*   [kind |-> "Quotes", quotes |-> q]   q a sequence of [timestamp,       *)
(*                                       adjclose] in the provider's order *)
(***************************************************************************)
Quote(t, c) == [timestamp |-> t, adjclose |-> c]

\* Insert q after every element whose key is <= its own: the order of equal
\* keys is kept.
RECURSIVE InsertByTimestamp(_, _)
InsertByTimestamp(q, sorted) ==
    IF sorted = <<>> THEN <<q>>
    ELSE IF Head(sorted).timestamp <= q.timestamp
         THEN <<Head(sorted)>> \o InsertByTimestamp(q, Tail(sorted))
         ELSE <<q>> \o sorted

RECURSIVE SortFrom(_, _)
SortFrom(done, rest) ==
    IF rest = <<>> THEN done
    ELSE SortFrom(InsertByTimestamp(Head(rest), done), Tail(rest))

sort_by_cached_key_Reversing(quotes) ==
    LET RECURSIVE InsBefore(_, _)
        InsBefore(q, sorted) ==
            IF sorted = <<>> THEN <<q>>
            ELSE IF Head(sorted).timestamp < q.timestamp
                 THEN <<Head(sorted)>> \o InsBefore(q, Tail(sorted))
                 ELSE <<q>> \o sorted
        RECURSIVE Go(_, _)
        Go(done, rest) ==
            IF rest = <<>> THEN done ELSE Go(InsBefore(Head(rest), done), Tail(rest))
    IN  Go(<<>>, quotes)

\* quotes.sort_by_cached_key(|k| k.timestamp): a stable sort on the timestamp.
sort_by_cached_key(quotes) == SortFrom(<<>>, quotes)

Ok(v) == [ok |-> TRUE, val |-> v]

Err(kind) == [ok |-> FALSE, kind |-> kind]

fetch_closing_data(answer) ==
    IF answer.kind = "ConnectorErr" THEN Err("ConnectionRefused")
    ELSE IF answer.kind \in {"HistoryErr", "QuotesErr"} THEN Err("InvalidData")
    ELSE IF answer.quotes # <<>>
         THEN LET quotes == sort_by_cached_key(answer.quotes)
              IN  Ok([i \in 1..Len(quotes) |-> quotes[i].adjclose])
         ELSE Ok(<<>>)

(***************************************************************************)
(* calculate_signals and the row it is formatted into.                     *)
(***************************************************************************)
UnwrapOr(opt, default) == IF opt.tag = "Some" THEN opt.val ELSE default

\* WindowedSMA::new(3) in calculate_signals.
WindowSize == 3

calculate_signals_FirstSma(symbol, period, closes) ==
    LET sma == UnwrapOr(WindowedSMA_calculate(WindowSize, closes), <<>>)
        price_diff == UnwrapOr(PriceDifference_calculate(closes), <<F(0), F(0)>>)
    IN  [date |-> period,
         symbol |-> symbol,
         last_price |-> IF closes = <<>> THEN F(0) ELSE Last(closes),
         pct_change |-> FMul(price_diff[2], F(100)),
         period_min |-> UnwrapOr(MinPrice_calculate(closes), F(0)),
         period_max |-> UnwrapOr(MaxPrice_calculate(closes), F(0)),
         last_sma |-> IF sma = <<>> THEN F(0) ELSE Head(sma)]

\* A panic inside a signal would unwind through calculate_signals.
calculate_signals(symbol, period, closes) ==
    IF WindowedSMA_calculate(WindowSize, closes) = Panic THEN Panic ELSE
    LET period_max == UnwrapOr(MaxPrice_calculate(closes), F(0))
        period_min == UnwrapOr(MinPrice_calculate(closes), F(0))
        sma == UnwrapOr(WindowedSMA_calculate(WindowSize, closes), <<>>)
        price_diff == UnwrapOr(PriceDifference_calculate(closes), <<F(0), F(0)>>)
        pct_change == FMul(price_diff[2], F(100))
        last_price == IF closes = <<>> THEN F(0) ELSE Last(closes)
        last_sma == IF sma = <<>> THEN F(0) ELSE Last(sma)
    IN  [date |-> period,
         symbol |-> symbol,
         last_price |-> last_price,
         pct_change |-> pct_change,
         period_min |-> period_min,
         period_max |-> period_max,
         last_sma |-> last_sma]

\* {:.2}: the decimal with two fraction digits nearest to the value, a tie
\* going to the even digit; inf and NaN print as themselves.  The result is the
\* printed number, <<hundredths, 100>>.
Fmt2(a) ==
    IF a[2] = 0 THEN a
    ELSE LET q == (100 * a[1]) \div a[2]
             r == (100 * a[1]) % a[2]
         IN  IF 2 * r > a[2] THEN <<q + 1, 100>>
             ELSE IF 2 * r = a[2] THEN <<q + (q % 2), 100>>
             ELSE <<q, 100>>

Header == [kind |-> "header", text |-> "period start,symbol,price,change %,min,max,30d avg"]

\* format!("{},{},${:.2},{:.2}%,${:.2},${:.2},${:.2}\n", data.0 .. data.6)
FormatRow(data) ==
    [kind |-> "row",
     date |-> data.date,
     symbol |-> data.symbol,
     price |-> Fmt2(data.last_price),
     change |-> Fmt2(data.pct_change),
     min |-> Fmt2(data.period_min),
     max |-> Fmt2(data.period_max),
     avg |-> Fmt2(data.last_sma)]

(***************************************************************************)
(* stream_signals: the run.                                                *)
(***************************************************************************)
SeqsUpTo(S, n) == UNION {[1..k -> S] : k \in 0..n}

Symbols == {"AAPL", "MSFT"}

Starts == {"2020-01-01T00:00:00+00:00"}

\* What the provider may answer to one request.
ProviderQuotes ==
    { <<>>,
      <<Quote(1, F(2))>>,
      <<Quote(2, F(3)), Quote(1, F(1))>>,
      <<Quote(1, F(0)), Quote(3, F(1)), Quote(2, F(2)), Quote(3, F(4))>> }

ProviderAnswers ==
    {[kind |-> "ConnectorErr"], [kind |-> "HistoryErr"], [kind |-> "QuotesErr"]}
    \cup {[kind |-> "Quotes", quotes |-> q] : q \in ProviderQuotes}

\* data.csv as earlier runs of the program left it.
EarlierRow(symbol, closes) ==
    FormatRow(calculate_signals(symbol, "2019-12-01T00:00:00+00:00", closes))

PriorFiles ==
    { <<>>,
      <<Header, EarlierRow("GOOG", <<F(1), F(2)>>)>>,
      <<Header, EarlierRow("AAPL", <<F(1)>>), EarlierRow("MSFT", <<F(2), F(1), F(3)>>),
        EarlierRow("UBER", <<F(3)>>), EarlierRow("GOOG", <<F(1), F(2)>>)>> }

\* Writing lines at the cursor of a file opened with create(true).write(true):
\* the lines replace what is there and extend the file past its end; nothing
\* is truncated.
WriteAt(f, pos, lines) ==
    LET n == IF Len(f) > pos + Len(lines) THEN Len(f) ELSE pos + Len(lines)
    IN  [i \in 1..n |-> IF i > pos /\ i <= pos + Len(lines) THEN lines[i - pos] ELSE f[i]]

EmitsRow_NeedsWindow(closes) == Len(closes) >= WindowSize

\* if !closes.is_empty()
EmitsRow(closes) == closes # <<>>

Init ==
    /\ symbols \in SeqsUpTo(Symbols, MaxSymbols)
    /\ start \in Starts
    /\ \E exists \in BOOLEAN :
         /\ fileExists = exists
         /\ file0 \in (IF exists THEN PriorFiles ELSE {<<>>})
    /\ file = file0
    /\ filePos = 0
    /\ buf = <<>>
    /\ pc = "open"
    /\ idx = 0
    /\ err = ""
    /\ provided = <<>>
    /\ tQuotes = <<>>
    /\ tSeries = <<>>
    /\ tOut = [sig |-> "none"]

\* OpenOptions::new().create(true).write(true).open("data.csv")
Open ==
    /\ pc = "open"
    /\ fileExists' = TRUE
    /\ filePos' = 0
    /\ pc' = "header"
    /\ UNCHANGED <<symbols, start, file0, file, buf, idx, err, provided>>
    /\ UNCHANGED sigVars

\* .open("data.csv")? failing: the run returns the error before any write.
OpenFails ==
    /\ pc = "open"
    /\ err' = "PermissionDenied"
    /\ pc' = "failed"
    /\ UNCHANGED <<symbols, start, file0, fileExists, file, filePos, buf, idx, provided>>
    /\ UNCHANGED sigVars

\* stream.write(header.as_bytes())?: into the BufWriter's buffer.
WriteHeader ==
    /\ pc = "header"
    /\ buf' = Append(buf, Header)
    /\ idx' = 1
    /\ pc' = "loop"
    /\ UNCHANGED <<symbols, start, file0, fileExists, file, filePos, err, provided>>
    /\ UNCHANGED sigVars

FetchFails_Isolated ==
    /\ pc = "loop"
    /\ idx <= Len(symbols)
    /\ \E answer \in ProviderAnswers :
         /\ ~fetch_closing_data(answer).ok
         /\ provided' = Append(provided, answer)
    /\ idx' = idx + 1
    /\ UNCHANGED <<symbols, start, file0, fileExists, file, filePos, buf, pc, err>>
    /\ UNCHANGED sigVars

\* fetch_closing_data(..).await? failing: stream_signals returns the error;
\* the BufWriter, dropped on the way out, writes its buffer to the file.
FetchFails ==
    /\ pc = "loop"
    /\ idx <= Len(symbols)
    /\ \E answer \in ProviderAnswers :
         LET closes == fetch_closing_data(answer)
         IN  /\ ~closes.ok
             /\ provided' = Append(provided, answer)
             /\ err' = closes.kind
    /\ file' = WriteAt(file, filePos, buf)
    /\ filePos' = filePos + Len(buf)
    /\ buf' = <<>>
    /\ pc' = "failed"
    /\ UNCHANGED <<symbols, start, file0, fileExists, idx>>
    /\ UNCHANGED sigVars

\* One iteration whose series is empty: nothing is written.
FetchSkips ==
    /\ pc = "loop"
    /\ idx <= Len(symbols)
    /\ \E answer \in ProviderAnswers :
         LET closes == fetch_closing_data(answer)
         IN  /\ closes.ok
             /\ ~EmitsRow(closes.val)
             /\ provided' = Append(provided, answer)
    /\ idx' = idx + 1
    /\ UNCHANGED <<symbols, start, file0, fileExists, file, filePos, buf, pc, err>>
    /\ UNCHANGED sigVars

\* One iteration whose series is not empty: calculate_signals, format!, and
\* stream.write(row.as_bytes())? into the buffer.
FetchWritesRow ==
    /\ pc = "loop"
    /\ idx <= Len(symbols)
    /\ \E answer \in ProviderAnswers :
         LET closes == fetch_closing_data(answer)
         IN  /\ closes.ok
             /\ EmitsRow(closes.val)
             /\ provided' = Append(provided, answer)
             /\ buf' = Append(buf, FormatRow(calculate_signals(symbols[idx], start, closes.val)))
    /\ idx' = idx + 1
    /\ UNCHANGED <<symbols, start, file0, fileExists, file, filePos, pc, err>>
    /\ UNCHANGED sigVars

\* stream.flush()?; Ok(())
Flush ==
    /\ pc = "loop"
    /\ idx > Len(symbols)
    /\ file' = WriteAt(file, filePos, buf)
    /\ filePos' = filePos + Len(buf)
    /\ buf' = <<>>
    /\ pc' = "done"
    /\ UNCHANGED <<symbols, start, file0, fileExists, idx, err, provided>>
    /\ UNCHANGED sigVars

Next ==
    \/ Open
    \/ OpenFails
    \/ WriteHeader
    \/ FetchFails
    \/ FetchSkips
    \/ FetchWritesRow
    \/ Flush

Spec == Init /\ [][Next]_vars

(***************************************************************************)
(* The signals, fetch_closing_data's ordering and calculate_signals on     *)
(* every input within the bounds: the inputs are drawn in SigInit and each *)
(* action is one call, as in the tests of main.rs.                         *)
(***************************************************************************)
Prices == {F(n) : n \in 0..MaxPriceValue}

SeriesInputs == SeqsUpTo(Prices, MaxLen)

QuoteInputs == SeqsUpTo({Quote(t, c) : t \in 1..MaxTimestamp, c \in Prices}, MaxQuotes)

RunIdle ==
    /\ symbols = <<>>
    /\ start \in Starts
    /\ file0 = <<>>
    /\ fileExists = FALSE
    /\ file = <<>>
    /\ filePos = 0
    /\ buf = <<>>
    /\ pc = "idle"
    /\ idx = 0
    /\ err = ""
    /\ provided = <<>>

SigInit ==
    /\ RunIdle
    /\ \/ tQuotes = <<>> /\ tSeries \in SeriesInputs
       \/ tQuotes \in QuoteInputs /\ tQuotes # <<>> /\ tSeries = <<>>
    /\ tOut = [sig |-> "none"]

\* The series is there and no signal has been called on it yet: it is an
\* input, or fetch_closing_data has just returned it.
SeriesReady == IF tQuotes = <<>> THEN tOut.sig = "none" ELSE tOut.sig = "fetch"

\* fetch_closing_data on a response the provider parsed into tQuotes.
CallFetch ==
    /\ tQuotes # <<>>
    /\ tOut.sig = "none"
    /\ LET closes == fetch_closing_data([kind |-> "Quotes", quotes |-> tQuotes])
       IN  /\ tSeries' = closes.val
           /\ tOut' = [sig |-> "fetch", res |-> closes]
    /\ UNCHANGED tQuotes
    /\ UNCHANGED runVars

CallMaxPrice ==
    /\ SeriesReady
    /\ tOut' = [sig |-> "max", res |-> MaxPrice_calculate(tSeries)]
    /\ UNCHANGED <<tQuotes, tSeries>>
    /\ UNCHANGED runVars

CallMinPrice ==
    /\ SeriesReady
    /\ tOut' = [sig |-> "min", res |-> MinPrice_calculate(tSeries)]
    /\ UNCHANGED <<tQuotes, tSeries>>
    /\ UNCHANGED runVars

\* WindowedSMA::new(w).calculate(series)
CallWindowedSMA ==
    /\ SeriesReady
    /\ \E w \in 0..MaxWindow :
         tOut' = [sig |-> "sma", window |-> w, res |-> WindowedSMA_calculate(w, tSeries)]
    /\ UNCHANGED <<tQuotes, tSeries>>
    /\ UNCHANGED runVars

CallPriceDifference ==
    /\ SeriesReady
    /\ tOut' = [sig |-> "diff", res |-> PriceDifference_calculate(tSeries)]
    /\ UNCHANGED <<tQuotes, tSeries>>
    /\ UNCHANGED runVars

CallCalculateSignals ==
    /\ SeriesReady
    /\ \E symbol \in Symbols :
         tOut' = [sig |-> "row", res |-> calculate_signals(symbol, start, tSeries)]
    /\ UNCHANGED <<tQuotes, tSeries>>
    /\ UNCHANGED runVars

SigNext ==
    \/ CallFetch
    \/ CallMaxPrice
    \/ CallMinPrice
    \/ CallWindowedSMA
    \/ CallPriceDifference
    \/ CallCalculateSignals

SigSpec == SigInit /\ [][SigNext]_vars

(***************************************************************************)
(* Claims about the run (Spec).                                            *)
(***************************************************************************)
\* The lines the run has written to the file: those before the cursor.
Written == SubSeq(file, 1, filePos)

AnswerNonEmpty(i) == provided[i].kind = "Quotes" /\ provided[i].quotes # <<>>

AnswerFailed(i) == provided[i].kind # "Quotes"

\* The symbols at the positions 1..n whose answer was a non-empty series, in
\* input order.
RECURSIVE RowSymbols(_)
RowSymbols(n) ==
    IF n = 0 THEN <<>>
    ELSE RowSymbols(n - 1) \o (IF AnswerNonEmpty(n) THEN <<symbols[n]>> ELSE <<>>)

\* The rows a run without failure writes for the positions 1..n.
RECURSIVE ExpectedRows(_)
ExpectedRows(n) ==
    IF n = 0 THEN <<>>
    ELSE ExpectedRows(n - 1) \o
         (IF AnswerNonEmpty(n)
          THEN <<FormatRow(calculate_signals(symbols[n], start,
                                             fetch_closing_data(provided[n]).val))>>
          ELSE <<>>)

\* C1: a completed run has fetched every symbol once and has written, after
\* the header, exactly one row per position whose series was non-empty and
\* none for an empty one, in the order of the input list.
C1_RowsFollowSymbols ==
    pc = "done" =>
        /\ Len(provided) = Len(symbols)
        /\ \A i \in 1..Len(provided) : ~AnswerFailed(i)
        /\ buf = <<>>
        /\ Len(Written) = 1 + Len(RowSymbols(Len(symbols)))
        /\ Written[1] = Header
        /\ \A j \in 1..Len(RowSymbols(Len(symbols))) :
              /\ Written[j + 1].kind = "row"
              /\ Written[j + 1].symbol = RowSymbols(Len(symbols))[j]

\* C1 witness: a completed run over a symbol listed twice, both series
\* non-empty and different.
C1_Witness ==
    /\ pc = "done"
    /\ Len(symbols) = 2
    /\ symbols[1] = symbols[2]
    /\ AnswerNonEmpty(1)
    /\ AnswerNonEmpty(2)
    /\ provided[1] # provided[2]

\* C2: when the fetch at position k fails the run has ended in failure with
\* ConnectionRefused (the connector) or InvalidData (the response), k is the
\* last position fetched, and what the run wrote is the header and the rows
\* of the positions before k, as a run without failure writes them.
C2_FailureStopsRun ==
    \A k \in 1..Len(provided) :
        AnswerFailed(k) =>
            /\ pc = "failed"
            /\ k = Len(provided)
            /\ err = (IF provided[k].kind = "ConnectorErr"
                      THEN "ConnectionRefused" ELSE "InvalidData")
            /\ buf = <<>>
            /\ Written = <<Header>> \o ExpectedRows(k - 1)

\* C2 witness: the second fetch failed after the first symbol's row.
C2_Witness ==
    /\ pc = "failed"
    /\ Len(symbols) = 2
    /\ Len(provided) = 2
    /\ AnswerNonEmpty(1)
    /\ provided[2].kind = "ConnectorErr"

\* C8 as stated: after a completed run the file holds the header and this
\* run's rows and nothing else, whatever it held before.
C8_FileIsThisRunOnly ==
    pc = "done" => file = <<Header>> \o ExpectedRows(Len(symbols))

(***************************************************************************)
(* Claims about the signals (SigSpec).                                     *)
(***************************************************************************)
Elements(s) == {s[i] : i \in 1..Len(s)}

\* C3: MaxPrice is absent exactly on the empty series and otherwise an
\* element that is >= every element; MinPrice dually with <=.
C3_MaxMinAreBounds ==
    /\ tOut.sig = "max" =>
         /\ (tOut.res = None) <=> (tSeries = <<>>)
         /\ tSeries # <<>> =>
              /\ tOut.res.tag = "Some"
              /\ tOut.res.val \in Elements(tSeries)
              /\ \A x \in Elements(tSeries) : FLe(x, tOut.res.val)
    /\ tOut.sig = "min" =>
         /\ (tOut.res = None) <=> (tSeries = <<>>)
         /\ tSeries # <<>> =>
              /\ tOut.res.tag = "Some"
              /\ tOut.res.val \in Elements(tSeries)
              /\ \A x \in Elements(tSeries) : FLe(tOut.res.val, x)

\* C3 witness: the maximum of a series whose last element is neither its
\* largest nor its smallest.
C3_Witness ==
    /\ tOut.sig = "max"
    /\ Len(tSeries) >= 3
    /\ tOut.res = Some(F(2))
    /\ Last(tSeries) = F(1)
    /\ F(0) \in Elements(tSeries)

\* C4: WindowedSMA(w) never panics, is absent exactly when the series is
\* empty or w <= 1, and otherwise holds max(0, |S| - w + 1) values.
C4_SmaPresenceAndLength ==
    tOut.sig = "sma" =>
        /\ tOut.res # Panic
        /\ (tOut.res = None) <=> (tSeries = <<>> \/ tOut.window <= 1)
        /\ (tSeries # <<>> /\ tOut.window > 1) =>
              /\ tOut.res.tag = "Some"
              /\ Len(tOut.res.val) = (IF Len(tSeries) - tOut.window + 1 > 0
                                      THEN Len(tSeries) - tOut.window + 1 ELSE 0)

\* C4 witness: a window larger than a non-empty series gives a present,
\* empty sequence.
C4_Witness ==
    /\ tOut.sig = "sma"
    /\ tSeries # <<>>
    /\ tOut.window > Len(tSeries)
    /\ tOut.res = Some(<<>>)

RECURSIVE SumFromTo(_, _, _)
SumFromTo(s, lo, hi) == IF lo > hi THEN F(0) ELSE FAdd(SumFromTo(s, lo, hi - 1), s[hi])

\* C5: for w > 1 and |S| >= w, value i (0-based) times w is the sum of
\* S[i] .. S[i+w-1], for every i from 0 to |S| - w.
C5_SmaIsWindowMean ==
    (tOut.sig = "sma" /\ tOut.window > 1 /\ Len(tSeries) >= tOut.window) =>
        /\ tOut.res.tag = "Some"
        /\ \A i \in 0..(Len(tSeries) - tOut.window) :
              /\ i + 1 \in DOMAIN tOut.res.val
              /\ FMul(tOut.res.val[i + 1], F(tOut.window))
                    = SumFromTo(tSeries, i + 1, i + tOut.window)

\* C5 witness: three windows of length 3 whose means all differ.
C5_Witness ==
    /\ tOut.sig = "sma"
    /\ tOut.window = 3
    /\ Len(tSeries) = 5
    /\ tOut.res.tag = "Some"
    /\ Cardinality(Elements(tOut.res.val)) = 3

C7_RowFields ==
    (tOut.sig = "row" /\ tSeries # <<>>) =>
        /\ tOut.res # Panic
        /\ tOut.res.last_price = Last(tSeries)
        /\ tOut.res.pct_change = FMul(PriceDifference_calculate(tSeries).val[2], F(100))
        /\ Len(tSeries) >= 3 =>
              tOut.res.last_sma = Last(WindowedSMA_calculate(3, tSeries).val)
        /\ Len(tSeries) \in {1, 2} => tOut.res.last_sma = F(0)

\* C7 witness: a row of a five-element series whose first and last windows
\* of three have different means.
C7_Witness ==
    /\ tOut.sig = "row"
    /\ Len(tSeries) = 5
    /\ tOut.res.last_sma # WindowMean(SubSeq(tSeries, 1, 3))
    /\ tOut.res.pct_change # F(0)

\* Whether series is the adjusted closes of quotes in non-decreasing
\* timestamp order, quotes of equal timestamp in the provider's order.
IsStableOrderOf(series, quotes) ==
    /\ Len(series) = Len(quotes)
    /\ \E p \in Permutations(1..Len(quotes)) :
         /\ \A i, j \in 1..Len(quotes) :
               i < j => \/ quotes[p[i]].timestamp < quotes[p[j]].timestamp
                        \/ /\ quotes[p[i]].timestamp = quotes[p[j]].timestamp
                           /\ p[i] < p[j]
         /\ \A i \in 1..Len(quotes) : series[i] = quotes[p[i]].adjclose

\* C9: from fetch_closing_data on, and after every signal called on it, the
\* series is the adjusted closes in non-decreasing timestamp order with
\* equal timestamps in the provider's order.
C9_SeriesInTimestampOrder ==
    (tQuotes # <<>> /\ tOut.sig # "none") =>
        /\ IsStableOrderOf(tSeries, tQuotes)
        /\ tOut.sig = "fetch" => tOut.res = Ok(tSeries)

\* C9 witness: a signal has run on a series fetched from quotes that came
\* out of order and with two different closes at one timestamp.
C9_Witness ==
    /\ tOut.sig = "min"
    /\ Len(tQuotes) = 3
    /\ tQuotes[1].timestamp > tQuotes[3].timestamp
    /\ tQuotes[1].timestamp = tQuotes[2].timestamp
    /\ tQuotes[1].adjclose # tQuotes[2].adjclose

====
